---- MODULE Spec2Model ----
(***************************************************************************)
(* A model of mindoc's main.go: one run of the generator that deletes the  *)
(* output directory "site", copies docs/img to site/img, walks "docs",     *)
(* builds a Page for every "*.md" file, writes one HTML page per Page and  *)
(* finally writes site/index.html.                                         *)
(*                                                                         *)
(* Go strings are sequences of one-character strings, so that the string   *)
(* functions of the code (HasSuffix, ReplaceAll, TrimSuffix, filepath.Dir, *)
(* Base, Ext, Clean, Join) are computed the way Go computes them.          *)
(* A path of the file system is the sequence of its element names.         *)
(***************************************************************************)
EXTENDS Naturals, Sequences, FiniteSets

(***************************************************************************)
(* Bounds of the model.                                                    *)
(***************************************************************************)
\* the input tree holds at most MaxFiles regular files
MaxFiles == 2
\* at most MaxFaults system calls of a run fail for a reason outside the model
\* (permissions, a full disk); failures that follow from the file tree, such
\* as a missing directory, are not counted
MaxFaults == 1

(***************************************************************************)
(* Program constants (src/main.go:27-32) and the literals of the code.     *)
(***************************************************************************)
inputDir  == <<"d", "o", "c", "s">>
outputDir == <<"s", "i", "t", "e">>
indexFile == <<"i", "n", "d", "e", "x", ".", "h", "t", "m", "l">>
imgDir    == <<"i", "m", "g">>
MdSuffix   == <<".", "m", "d">>
HtmlSuffix == <<".", "h", "t", "m", "l">>
Sep   == "/"
Space == " "
Dot   == <<".">>
DotDot == <<".", ".">>

(***************************************************************************)
(* Byte order of the characters that occur in the model's names: Go sorts  *)
(* directory entries and map keys by byte value.                           *)
(***************************************************************************)
Alphabet == <<" ", ".", "/", "a", "b", "c", "d", "e", "g", "h", "i",
              "l", "m", "n", "o", "s", "t", "x">>
Ord(c) == CHOOSE i \in 1..Len(Alphabet) : Alphabet[i] = c

RECURSIVE LessStr(_, _)
LessStr(s, t) ==
    IF t = <<>> THEN FALSE
    ELSE IF s = <<>> THEN TRUE
    ELSE IF Head(s) = Head(t) THEN LessStr(Tail(s), Tail(t))
    ELSE Ord(Head(s)) < Ord(Head(t))

\* the names of the set S in increasing byte order
RECURSIVE SortStr(_)
SortStr(S) ==
    IF S = {} THEN <<>>
    ELSE LET m == CHOOSE x \in S : \A y \in S \ {x} : LessStr(x, y)
         IN  <<m>> \o SortStr(S \ {m})

(***************************************************************************)
(* package strings                                                         *)
(***************************************************************************)
HasSuffix(s, suffix) ==
    /\ Len(suffix) <= Len(s)
    /\ SubSeq(s, Len(s) - Len(suffix) + 1, Len(s)) = suffix

TrimSuffix(s, suffix) ==
    IF HasSuffix(s, suffix) THEN SubSeq(s, 1, Len(s) - Len(suffix)) ELSE s

\* strings.ReplaceAll(s, old, "") for a one-character old
RECURSIVE ReplaceAll(_, _)
ReplaceAll(s, old) ==
    IF s = <<>> THEN <<>>
    ELSE (IF Head(s) = old THEN <<>> ELSE <<Head(s)>>) \o ReplaceAll(Tail(s), old)

\* the largest index of c in s, 0 when c does not occur
LastIndex(s, c) ==
    LET I == {i \in 1..Len(s) : s[i] = c}
    IN  IF I = {} THEN 0 ELSE CHOOSE i \in I : \A j \in I : j <= i

(***************************************************************************)
(* package path/filepath (Unix)                                            *)
(***************************************************************************)
\* the elements of s between separators, empty elements included
RECURSIVE Split(_)
Split(s) ==
    LET I == {i \in 1..Len(s) : s[i] = Sep}
    IN  IF I = {} THEN <<s>>
        ELSE LET i == CHOOSE k \in I : \A j \in I : k <= j
             IN  <<SubSeq(s, 1, i - 1)>> \o Split(SubSeq(s, i + 1, Len(s)))

RECURSIVE JoinSegs(_)
JoinSegs(segs) ==
    IF segs = <<>> THEN <<>>
    ELSE IF Len(segs) = 1 THEN segs[1]
    ELSE segs[1] \o <<Sep>> \o JoinSegs(Tail(segs))

\* the element stack of Clean: "" and "." are dropped, ".." removes the
\* element before it, is dropped at the root and kept at the start otherwise
RECURSIVE CleanSegs(_, _, _)
CleanSegs(segs, stack, rooted) ==
    IF segs = <<>> THEN stack
    ELSE LET e == Head(segs)
             next == IF e = <<>> \/ e = Dot THEN stack
                     ELSE IF e = DotDot
                          THEN IF stack # <<>> /\ stack[Len(stack)] # DotDot
                               THEN SubSeq(stack, 1, Len(stack) - 1)
                               ELSE IF rooted THEN stack
                               ELSE Append(stack, e)
                     ELSE Append(stack, e)
         IN  CleanSegs(Tail(segs), next, rooted)

IsRooted(s) == s # <<>> /\ s[1] = Sep

\* filepath.Clean
Clean(s) ==
    LET segs == CleanSegs(Split(s), <<>>, IsRooted(s))
        body == JoinSegs(segs)
    IN  IF IsRooted(s) THEN <<Sep>> \o body
        ELSE IF body = <<>> THEN Dot
        ELSE body

\* filepath.Join: empty elements are ignored, the rest joined and cleaned
Join(elems) ==
    LET ne == SelectSeq(elems, LAMBDA e : e # <<>>)
    IN  IF ne = <<>> THEN <<>> ELSE Clean(JoinSegs(ne))

\* filepath.Dir: all but the last element, cleaned
Dir(path) == Clean(SubSeq(path, 1, LastIndex(path, Sep)))

\* path without its trailing separators
RECURSIVE StripTrailingSep(_)
StripTrailingSep(path) ==
    IF path # <<>> /\ path[Len(path)] = Sep
    THEN StripTrailingSep(SubSeq(path, 1, Len(path) - 1))
    ELSE path

\* filepath.Base
Base(path) ==
    IF path = <<>> THEN Dot
    ELSE LET p == StripTrailingSep(path)
             q == SubSeq(p, LastIndex(p, Sep) + 1, Len(p))
         IN  IF q = <<>> THEN <<Sep>> ELSE q

\* filepath.Ext: the suffix of the last element that starts at its last dot
Ext(path) ==
    LET d == LastIndex(path, ".")
    IN  IF d > LastIndex(path, Sep) THEN SubSeq(path, d, Len(path)) ELSE <<>>


(***************************************************************************)
(* The input tree, chosen when the run starts.  Names are picked so that   *)
(* the cases of the code occur: documents and other files, names with      *)
(* spaces, the asset directory with a subdirectory, a directory whose name *)
(* turns into "img" and one whose name turns into "" once spaces are       *)
(* removed.                                                                *)
(***************************************************************************)
NameA      == <<"a">>
NameSp     == <<" ">>
NameImSpG  == <<"i", "m", " ", "g">>
FileAMd    == <<"a", ".", "m", "d">>
FileASpMd  == <<"a", " ", ".", "m", "d">>
FileAHtml  == <<"a", ".", "h", "t", "m", "l">>
FileBMd    == <<"b", ".", "m", "d">>
FileIndexMd == <<"i", "n", "d", "e", "x", ".", "m", "d">>

DirCandidates  == {<<>>, <<NameA>>, <<imgDir>>, <<imgDir, NameA>>, <<NameImSpG>>,
                   <<NameSp>>}
\* the file names that may occur in directory d
FileNames(d)   ==
    IF d = <<>> THEN {FileAMd, FileASpMd, FileAHtml, FileBMd, FileIndexMd, imgDir}
    ELSE IF d = <<imgDir>> THEN {FileAMd, FileAHtml}
    ELSE IF d = <<imgDir, NameA>> THEN {FileAMd, FileAHtml}
    ELSE {FileAMd}
FileCandidates == UNION {{d \o <<n>> : n \in FileNames(d)} : d \in DirCandidates}
Bytes          == {"x", "y"}
\* the file contents on which the renderer may return an error
MayFailOn      == {"y"}

Raw(b) == [kind |-> "raw", data |-> b]

\* what a write that failed midway leaves of content c: a proper prefix of it
Partial(c) == [kind |-> "partial", of |-> c]

\* the owner's permission bits of a directory (0755, 0555, 0000); the run is
\* that of an ordinary user, for whom the bits are enforced
Modes   == {"rwx", "r-x", "---"}
ModePerm == "rwx"
\* the bits of a regular file (0644)
FileMode == "rw-"
Readable(m)   == m \in {"rwx", "r-x", "rw-"}
Searchable(m) == m \in {"rwx", "r-x"}
Writable(m)   == m = "rwx"

\* the non-empty prefixes of a path: the directories MkdirAll creates
Prefixes(p) == {SubSeq(p, 1, k) : k \in 1..Len(p)}
Parent(p)   == SubSeq(p, 1, Len(p) - 1)
IsUnder(p, d) == Len(p) > Len(d) /\ SubSeq(p, 1, Len(d)) = d

\* the output of an earlier run, which every run starts from
StaleFiles == [p \in {<<outputDir, indexFile>>} |-> [kind |-> "stale", data |-> "old"]]
StaleDirs  == {<<outputDir>>}
StaleMode  == [d \in StaleDirs |-> ModePerm]

VARIABLES
    srcFiles,   \* files under docs: path relative to docs -> content
    srcDirs,    \* directories under docs, <<>> being docs itself
    srcMode,    \* the permission bits of the directories under docs
    outFiles,   \* files under the working directory outside docs: path -> content
    outDirs,    \* directories under the working directory outside docs
    outMode,    \* the permission bits of the directories of outDirs
    pc,         \* position of main
    status,     \* exit status of the process once pc = "exited"
    todo,       \* entries filepath.Walk has still to visit, in its order
    pages,      \* main's pages slice
    origin,     \* origin[i]: the path processFile built pages[i] from
    genIdx,     \* position of the loop over pages (lines 171-176)
    dirMap,     \* generateIndex's dirMap
    writes,     \* the files generateHTML has written, in order
    log,        \* the messages printed
    faults,     \* number of system calls that have failed for an outside reason,
                \* plus the number of input directories with restricted bits
    badBytes    \* the inputs on which the renderer (md.Convert) returns an error

vars == <<srcFiles, srcDirs, srcMode, outFiles, outDirs, outMode, pc, status, todo,
          pages, origin, genIdx, dirMap, writes, log, faults, badBytes>>

NoMap == [k \in {} |-> <<>>]

Msg(m, a) == [msg |-> m, arg |-> a]

Init ==
    /\ \E docs \in BOOLEAN, img \in BOOLEAN :
       \E F \in SUBSET FileCandidates :
         /\ Cardinality(F) <= MaxFiles
         /\ docs \/ (F = {} /\ ~img)
         \* docs/img is a directory, a regular file, or missing
         /\ <<imgDir>> \in F => (~img /\ \A f \in F : ~IsUnder(f, <<imgDir>>))
         /\ srcFiles \in [F -> {Raw(b) : b \in Bytes}]
         /\ srcDirs = IF docs
                      THEN {<<>>} \cup UNION {Prefixes(Parent(f)) : f \in F}
                                  \cup (IF img THEN {<<imgDir>>} ELSE {})
                      ELSE {}
    \* the bits of the asset tree are the ones the code hands on (line 275)
    /\ srcMode \in [srcDirs -> Modes]
    /\ \A d \in srcDirs :
         (d # <<imgDir>> /\ ~IsUnder(d, <<imgDir>>)) => srcMode[d] = ModePerm
    /\ Cardinality({d \in srcDirs : srcMode[d] # ModePerm}) <= MaxFaults
    /\ faults = Cardinality({d \in srcDirs : srcMode[d] # ModePerm})
    /\ outFiles = StaleFiles
    /\ outDirs = StaleDirs
    /\ outMode = StaleMode
    /\ badBytes \in SUBSET MayFailOn
    /\ pc = "getwd"
    /\ status = 0
    /\ todo = <<>>
    /\ pages = <<>>
    /\ origin = <<>>
    /\ genIdx = 1
    /\ dirMap = NoMap
    /\ writes = <<>>
    /\ log = <<>>

(***************************************************************************)
(* File system operations.                                                 *)
(***************************************************************************)
\* the path, as element names, that a relative Go path string names
SegsOf(s) == LET c == Clean(s) IN IF c = Dot THEN <<>> ELSE Split(c)

\* The output file system as the functions below pass it on: the files, the
\* directories and their bits, the messages printed, and whether the last
\* call returned an error, with the operation that failed.
FsOf(files, dirs, modes, l) ==
    [files |-> files, dirs |-> dirs, modes |-> modes, log |-> l,
     err |-> FALSE, op |-> ""]

Fail(fs, op) == [fs EXCEPT !.err = TRUE, !.op = op]
Ok(fs)       == [fs EXCEPT !.err = FALSE, !.op = ""]

\* every directory on the way to p exists and can be searched
Reachable(p, fs) ==
    \A k \in 1..(Len(p) - 1) :
        /\ SubSeq(p, 1, k) \in fs.dirs
        /\ Searchable(fs.modes[SubSeq(p, 1, k)])

Fault(op, p) == [op |-> op, path |-> p]

\* mkdir(p): p is new and its parent is a directory that can be written;
\* bad holds the calls that fail for an outside reason
MkdirOk(p, fs, bad) ==
    /\ Fault("mkdir", p) \notin bad
    /\ p # <<>>
    /\ p \notin fs.dirs \cup DOMAIN fs.files
    /\ Reachable(p, fs)
    /\ Len(p) > 1 => /\ Parent(p) \in fs.dirs
                     /\ Writable(fs.modes[Parent(p)])

\* os.MkdirAll(p, perm): nothing to do when p is a directory; an error when
\* p is a file; else the parent is made, with the same bits, and then p
RECURSIVE MkdirAll(_, _, _, _)
MkdirAll(p, perm, fs, bad) ==
    IF p = <<>> \/ (Reachable(p, fs) /\ p \in fs.dirs) THEN Ok(fs)
    ELSE IF Reachable(p, fs) /\ p \in DOMAIN fs.files THEN Fail(fs, "mkdir")
    ELSE LET up == MkdirAll(Parent(p), perm, fs, bad)
         IN  IF up.err THEN up
             ELSE IF MkdirOk(p, up, bad)
             THEN [Ok(up) EXCEPT
                      !.dirs = @ \cup {p},
                      !.modes = [d \in up.dirs \cup {p} |->
                                    IF d = p THEN perm ELSE up.modes[d]]]
             ELSE Fail(up, "mkdir")

\* os.Create(p): p is no directory, its directory can be searched, and p
\* exists already (it is truncated) or its directory can be written
CreateOk(p, fs) ==
    /\ p # <<>>
    /\ p \notin fs.dirs
    /\ Reachable(p, fs)
    /\ Len(p) > 1 =>
         /\ Parent(p) \in fs.dirs
         /\ Searchable(fs.modes[Parent(p)])
         /\ p \in DOMAIN fs.files \/ Writable(fs.modes[Parent(p)])

WriteFile(files, p, c) ==
    [q \in DOMAIN files \cup {p} |-> IF q = p THEN c ELSE files[q]]

\* os.RemoveAll(d)
RemoveAllFiles(files, d) ==
    [q \in {r \in DOMAIN files : r # d /\ ~IsUnder(r, d)} |-> files[q]]
RemoveAllDirs(dirs, d) == {r \in dirs : r # d /\ ~IsUnder(r, d)}

\* what os.RemoveAll(d) can leave behind when it returns an error: d itself
\* and any part of what was under it, each path with the directories above
RemoveAllLeaves(keep, d) ==
    /\ d \in keep
    /\ \A p \in keep : p = d \/ (IsUnder(p, d) /\ Parent(p) \in keep)

Exit(code, m) ==
    /\ pc' = "exited"
    /\ status' = code
    /\ log' = log \o m

\* main reaches its end, line 182
Return(m) ==
    /\ pc' = "done"
    /\ status' = 0
    /\ log' = log \o m

(***************************************************************************)
(* main, lines 123-136                                                     *)
(***************************************************************************)
Getwd ==
    /\ pc = "getwd"
    /\ \/ /\ pc' = "remove"
          /\ UNCHANGED <<status, log, faults>>
       \/ /\ faults < MaxFaults
          /\ faults' = faults + 1
          /\ Exit(1, <<Msg("Error getting current directory", <<>>)>>)
    /\ UNCHANGED <<srcFiles, srcDirs, srcMode, outFiles, outDirs, outMode, todo,
                   pages, origin, genIdx, dirMap, writes, badBytes>>

RemoveOutput ==
    /\ pc = "remove"
    /\ \/ /\ outFiles' = RemoveAllFiles(outFiles, <<outputDir>>)
          /\ outDirs' = RemoveAllDirs(outDirs, <<outputDir>>)
          /\ outMode' = [d \in outDirs' |-> outMode[d]]
          /\ pc' = "copy"
          /\ UNCHANGED <<status, log, faults>>
       \/ \* os.RemoveAll returns an error: a part of the tree is left
          /\ faults < MaxFaults
          /\ faults' = faults + 1
          /\ <<outputDir>> \in outDirs
          /\ \E keep \in SUBSET {p \in outDirs \cup DOMAIN outFiles :
                                    p = <<outputDir>> \/ IsUnder(p, <<outputDir>>)} :
               /\ RemoveAllLeaves(keep, <<outputDir>>)
               /\ outFiles' = [p \in DOMAIN RemoveAllFiles(outFiles, <<outputDir>>)
                                      \cup (keep \cap DOMAIN outFiles) |-> outFiles[p]]
               /\ outDirs' = RemoveAllDirs(outDirs, <<outputDir>>)
                                 \cup (keep \cap outDirs)
               /\ outMode' = [d \in outDirs' |-> outMode[d]]
          /\ Exit(0, <<Msg("Error deleting output directory", <<>>)>>)
    /\ UNCHANGED <<srcFiles, srcDirs, srcMode, todo, pages, origin, genIdx, dirMap,
                   writes, badBytes>>

(***************************************************************************)
(* copyDir and copyFile, lines 265-317.  bad is the set of system calls    *)
(* that fail for an outside reason, each named by its operation and the    *)
(* source path it works for: "stat" and "open" (ioutil.ReadDir) of a       *)
(* directory, "open", "write" (io.Copy) and "close" of a file; a "mkdir"   *)
(* of os.MkdirAll is named by the directory it makes.                      *)
(***************************************************************************)
Entries == srcDirs \cup DOMAIN srcFiles

\* the names ioutil.ReadDir(d) returns
Children(d) == {q[Len(q)] : q \in {r \in Entries : r # <<>> /\ Parent(r) = d}}

\* the directories of the asset tree
AssetDirs == {e \in srcDirs : e = <<imgDir>> \/ IsUnder(e, <<imgDir>>)}

\* the calls of a copy of the asset tree that can fail
FaultPoints ==
    {Fault("stat", e) : e \in AssetDirs \cup ({<<imgDir>>} \cap Entries)}
    \cup {Fault("open", d) : d \in AssetDirs}
    \cup {Fault("mkdir", q) :
             q \in UNION {Prefixes(<<outputDir>> \o e) :
                             e \in AssetDirs \cup ({<<imgDir>>} \cap Entries)}
                   \ outDirs}
    \cup {Fault(op, f) : op \in {"open", "write", "close"},
                         f \in {e \in DOMAIN srcFiles : IsUnder(e, <<imgDir>>)}}

\* a missing docs/img is taken for an optional asset directory
StatAlwaysOk(src, bad) == TRUE

\* os.Stat(src), line 270
StatOk(src, bad) == src \in Entries /\ Fault("stat", src) \notin bad

\* srcinfo.Mode(), line 275
ModeOf(src) == IF src \in srcDirs THEN srcMode[src] ELSE FileMode

\* ioutil.ReadDir(src), line 279
ReadDirOk(src, bad) ==
    /\ src \in srcDirs
    /\ Readable(srcMode[src])
    /\ Fault("open", src) \notin bad

copyFile(src, dst, fs, bad) ==
    IF Fault("open", src) \in bad \/ src \notin DOMAIN srcFiles
    THEN Fail(fs, "open")
    ELSE IF ~CreateOk(dst, fs)
    THEN Fail(fs, "create")
    ELSE IF Fault("write", src) \in bad
    THEN [Fail(fs, "write") EXCEPT
             !.files = WriteFile(@, dst, Partial(srcFiles[src]))]
    ELSE IF Fault("close", src) \in bad
    THEN [Fail(fs, "close") EXCEPT !.files = WriteFile(@, dst, srcFiles[src])]
    ELSE [Ok(fs) EXCEPT !.files = WriteFile(@, dst, srcFiles[src])]

RECURSIVE copyDir(_, _, _, _)
RECURSIVE copyEntries(_, _, _, _, _)
copyDir(src, dst, fs, bad) ==
    IF ~StatOk(src, bad)
    THEN Fail(fs, "stat")
    ELSE LET made == MkdirAll(dst, ModeOf(src), fs, bad)
         IN  IF made.err THEN made
             ELSE IF ~ReadDirOk(src, bad)
             THEN Fail(made, "open")
             ELSE copyEntries(SortStr(Children(src)), src, dst, made, bad)

\* the loop of lines 281-294: an error of an entry is printed and dropped
copyEntries(names, src, dst, fs, bad) ==
    IF names = <<>> THEN Ok(fs)
    ELSE LET srcfp == Append(src, Head(names))
             dstfp == Append(dst, Head(names))
             r == IF srcfp \in srcDirs
                  THEN copyDir(srcfp, dstfp, fs, bad)
                  ELSE copyFile(srcfp, dstfp, fs, bad)
             after == IF r.err
                      THEN [r EXCEPT !.log = Append(@, Msg("copy error", srcfp))]
                      ELSE r
         IN  copyEntries(Tail(names), src, dst, after, bad)

(***************************************************************************)
(* filepath.Walk visits a directory, then its entries in byte order, each  *)
(* subdirectory in depth.                                                  *)
(***************************************************************************)
RECURSIVE WalkOrder(_)
RECURSIVE WalkAll(_, _)
WalkOrder(d) ==
    IF d \in srcDirs THEN <<d>> \o WalkAll(SortStr(Children(d)), d) ELSE <<d>>
WalkAll(names, d) ==
    IF names = <<>> THEN <<>>
    ELSE WalkOrder(Append(d, Head(names))) \o WalkAll(Tail(names), d)

\* the path under docs that a Go path starting with "docs" names
UnderDocs(s) == Tail(SegsOf(s))

\* main, lines 138-143; the message ends with the error, which names the
\* operation that failed
CopyImg ==
    /\ pc = "copy"
    /\ \E bad \in SUBSET FaultPoints :
         /\ faults + Cardinality(bad) <= MaxFaults
         /\ faults' = faults + Cardinality(bad)
         /\ LET r == copyDir(UnderDocs(Join(<<inputDir, imgDir>>)),
                             SegsOf(Join(<<outputDir, imgDir>>)),
                             FsOf(outFiles, outDirs, outMode, log),
                             bad)
            IN  /\ outFiles' = r.files
                /\ outDirs' = r.dirs
                /\ outMode' = r.modes
                /\ IF r.err
                   THEN /\ Exit(0, SubSeq(r.log, Len(log) + 1, Len(r.log))
                                   \o <<Msg("Error copying img directory", <<r.op>>)>>)
                        /\ todo' = todo
                   ELSE /\ pc' = "walk"
                        /\ log' = r.log
                        /\ status' = status
                        /\ todo' = WalkOrder(<<>>)
    /\ UNCHANGED <<srcFiles, srcDirs, srcMode, pages, origin, genIdx, dirMap, writes,
                   badBytes>>

(***************************************************************************)
(* processFile and convertMarkdownToHTML, lines 184-214.  The renderer is  *)
(* an external function of the input bytes; ok tells whether md.Convert    *)
(* returned no error; it is not called when the read has failed.           *)
(***************************************************************************)
Rendered(input) == <<"html", input.data>>

convertMarkdownToHTML(input, ok) == IF ok THEN Rendered(input) ELSE <<>>

TitleOf(path) == ReplaceAll(TrimSuffix(Base(path), Ext(path)), Space)

FilenameOf(title) == title \o HtmlSuffix

processFile(path, dir, input, ok) ==
    [Title    |-> TitleOf(path),
     Content  |-> convertMarkdownToHTML(input, ok),
     Dir      |-> dir,
     Filename |-> FilenameOf(TitleOf(path))]

\* line 152
IsDocument(e) == e \in DOMAIN srcFiles /\ HasSuffix(e[Len(e)], MdSuffix)

\* lines 153-155
DirOf(relativePath) == ReplaceAll(Dir(relativePath), Space)

\* a renderer error is returned to the walk like a read error
processFileFailsOnRender(readOk, renderOk) == ~readOk \/ ~renderOk

\* processFile returns an error, which ends the walk, when the read fails
processFileFails(readOk, renderOk) == ~readOk

WalkAbort ==
    Exit(1, <<Msg("Error processing directory", <<>>)>>)

\* filepath.Walk hands the entry to the function with err = nil: the entry
\* exists and, when it is a directory, its names can be read
WalkReadOk(e) ==
    /\ e \in Entries
    /\ e \in srcDirs => Readable(srcMode[e])

(***************************************************************************)
(* One call of the function main hands to filepath.Walk, lines 147-164,    *)
(* and lines 166-169 when it returns an error.                             *)
(***************************************************************************)
WalkVisit ==
    /\ pc = "walk"
    /\ todo # <<>>
    /\ LET e == Head(todo)
       IN  \/ \* lstat or the directory read failed: err # nil
              /\ \/ ~WalkReadOk(e) /\ faults' = faults
                 \/ faults < MaxFaults /\ faults' = faults + 1
              /\ WalkAbort
              /\ UNCHANGED <<todo, pages, origin>>
           \/ \* a directory or a file that is no document
              /\ WalkReadOk(e)
              /\ ~IsDocument(e)
              /\ todo' = Tail(todo)
              /\ UNCHANGED <<pc, status, log, pages, origin, faults>>
           \/ \* a document
              /\ IsDocument(e)
              /\ \E readOk \in BOOLEAN :
                 LET renderOk == srcFiles[e].data \notin badBytes
                 IN
                   /\ readOk \/ faults < MaxFaults
                   /\ faults' = IF readOk THEN faults ELSE faults + 1
                   /\ IF processFileFails(readOk, renderOk)
                      THEN /\ WalkAbort
                           /\ UNCHANGED <<todo, pages, origin>>
                      ELSE /\ pages' = Append(pages,
                                  processFile(JoinSegs(e), DirOf(JoinSegs(e)),
                                              srcFiles[e], renderOk))
                           /\ origin' = Append(origin, e)
                           /\ todo' = Tail(todo)
                           /\ log' = IF renderOk THEN log
                                     ELSE Append(log,
                                         Msg("Error converting Markdown to HTML", <<>>))
                           /\ UNCHANGED <<pc, status>>
    /\ UNCHANGED <<srcFiles, srcDirs, srcMode, outFiles, outDirs, outMode, genIdx,
                   dirMap, writes, badBytes>>

\* the pages are generated before the walk has visited every entry
WalkFinishedEarly(t) == TRUE

\* filepath.Walk has returned nil
WalkFinished(t) == t = <<>>

WalkDone ==
    /\ pc = "walk"
    /\ WalkFinished(todo)
    /\ pc' = "generate"
    /\ UNCHANGED <<srcFiles, srcDirs, srcMode, outFiles, outDirs, outMode, status,
                   todo, pages, origin, genIdx, dirMap, writes, log, faults,
                   badBytes>>

(***************************************************************************)
(* generateHTML, lines 216-235, called by the loop of lines 171-176.       *)
(***************************************************************************)
outputPath(page) == Join(<<outputDir, page.Dir, page.Filename>>)
outputDirOf(page) == Join(<<outputDir, page.Dir>>)

\* the page template applied to a Page
PageFile(page) == [kind |-> "page", title |-> page.Title, content |-> page.Content]

GenerateHTML ==
    /\ pc = "generate"
    /\ genIdx <= Len(pages)
    /\ LET page == pages[genIdx]
           path == SegsOf(outputPath(page))
           dir  == SegsOf(outputDirOf(page))
           cur  == FsOf(outFiles, outDirs, outMode, log)
           made == MkdirAll(dir, ModePerm, cur, {})
           failed == Append(log, Msg("Error generating HTML for page", page.Title))
       IN  \/ \* os.MkdirAll fails on what it finds
              /\ made.err
              /\ outDirs' = made.dirs
              /\ outMode' = made.modes
              /\ log' = failed
              /\ UNCHANGED <<outFiles, writes, faults>>
           \/ \* a mkdir of os.MkdirAll fails: the directories above are made
              /\ faults < MaxFaults
              /\ faults' = faults + 1
              /\ \E q \in Prefixes(dir) \ outDirs :
                   LET r == MkdirAll(dir, ModePerm, cur, {Fault("mkdir", q)})
                   IN  /\ ~MkdirAll(Parent(q), ModePerm, cur, {}).err
                       /\ outDirs' = r.dirs
                       /\ outMode' = r.modes
              /\ log' = failed
              /\ UNCHANGED <<outFiles, writes>>
           \/ \* os.Create fails
              /\ ~made.err
              /\ \/ ~CreateOk(path, made) /\ faults' = faults
                 \/ faults < MaxFaults /\ faults' = faults + 1
              /\ outDirs' = made.dirs
              /\ outMode' = made.modes
              /\ log' = failed
              /\ UNCHANGED <<outFiles, writes>>
           \/ \* tmpl.Execute fails on a write: the file is left truncated
              /\ ~made.err
              /\ CreateOk(path, made)
              /\ faults < MaxFaults
              /\ faults' = faults + 1
              /\ outDirs' = made.dirs
              /\ outMode' = made.modes
              /\ outFiles' = WriteFile(outFiles, path, Partial(PageFile(page)))
              /\ log' = failed
              /\ UNCHANGED writes
           \/ /\ ~made.err
              /\ CreateOk(path, made)
              /\ outDirs' = made.dirs
              /\ outMode' = made.modes
              /\ outFiles' = WriteFile(outFiles, path, PageFile(page))
              /\ writes' = Append(writes, [path |-> path, page |-> genIdx,
                                            file |-> PageFile(page)])
              /\ UNCHANGED <<log, faults>>
    /\ genIdx' = genIdx + 1
    /\ UNCHANGED <<srcFiles, srcDirs, srcMode, pc, status, todo, pages, origin,
                   dirMap, badBytes>>

(***************************************************************************)
(* generateIndex, lines 237-262.                                           *)
(***************************************************************************)
\* dirMap[page.Dir] = []Page{page}: the group is replaced, not extended
AddPageReplace(m, page) ==
    [k \in DOMAIN m \cup {page.Dir} |-> IF k = page.Dir THEN <<page>> ELSE m[k]]

\* dirMap[page.Dir] = append(dirMap[page.Dir], page)
AddPage(m, page) ==
    [k \in DOMAIN m \cup {page.Dir} |->
        IF k = page.Dir
        THEN (IF k \in DOMAIN m THEN m[k] ELSE <<>>) \o <<page>>
        ELSE m[k]]

RECURSIVE GroupPages(_, _)
GroupPages(ps, m) ==
    IF ps = <<>> THEN m ELSE GroupPages(Tail(ps), AddPage(m, Head(ps)))

\* the link of line 113
Href(page) == page.Dir \o <<Sep>> \o page.Filename

\* the index template applied to dirMap: the keys in sorted order
IndexFile(m) ==
    LET keys == SortStr(DOMAIN m)
    IN  [kind |-> "index",
         groups |-> [i \in 1..Len(keys) |->
            [heading |-> Base(keys[i]),
             items |-> [j \in 1..Len(m[keys[i]]) |->
                [href |-> Href(m[keys[i]][j]), label |-> m[keys[i]][j].Title]]]]]

\* lines 249-253, once the loop over the pages has ended
GenerateIndexGroup ==
    /\ pc = "generate"
    /\ genIdx > Len(pages)
    /\ dirMap' = GroupPages(pages, NoMap)
    /\ pc' = "index"
    /\ UNCHANGED <<srcFiles, srcDirs, srcMode, outFiles, outDirs, outMode, status,
                   todo, pages, origin, genIdx, writes, log, faults, badBytes>>

\* lines 255-261 and 178-182
GenerateIndexWrite ==
    /\ pc = "index"
    /\ LET path == SegsOf(Join(<<outputDir, indexFile>>))
           cur  == FsOf(outFiles, outDirs, outMode, log)
           failed == <<Msg("Error generating index", <<>>)>>
       IN  \/ /\ CreateOk(path, cur)
              /\ outFiles' = WriteFile(outFiles, path, IndexFile(dirMap))
              /\ Return(<<>>)
              /\ UNCHANGED faults
           \/ \* os.Create fails
              /\ \/ ~CreateOk(path, cur) /\ faults' = faults
                 \/ faults < MaxFaults /\ faults' = faults + 1
              /\ Return(failed)
              /\ UNCHANGED outFiles
           \/ \* tmpl.Execute fails on a write: the index is left truncated
              /\ CreateOk(path, cur)
              /\ faults < MaxFaults
              /\ faults' = faults + 1
              /\ outFiles' = WriteFile(outFiles, path, Partial(IndexFile(dirMap)))
              /\ Return(failed)
    /\ UNCHANGED <<srcFiles, srcDirs, srcMode, outDirs, outMode, todo, pages, origin,
                   genIdx, dirMap, writes, badBytes>>

Next ==
    \/ Getwd
    \/ RemoveOutput
    \/ CopyImg
    \/ WalkVisit
    \/ WalkDone
    \/ GenerateHTML
    \/ GenerateIndexGroup
    \/ GenerateIndexWrite

Spec == Init /\ [][Next]_vars

(***************************************************************************)
(* Vocabulary of the properties, stated on the input tree and on what the  *)
(* run left behind, independently of the operators above.                  *)
(***************************************************************************)
Terminated == pc \in {"done", "exited"}

Printed(m) == \E i \in DOMAIN log : log[i].msg = m

\* the only messages of the run, if any, report a renderer failure
NoIOError ==
    /\ faults = 0
    /\ \A i \in DOMAIN log : log[i].msg = "Error converting Markdown to HTML"

\* the files of the input tree whose name ends in ".md"
EndsInMd(n) ==
    /\ Len(n) >= 3
    /\ n[Len(n) - 2] = "." /\ n[Len(n) - 1] = "m" /\ n[Len(n)] = "d"
Documents == {f \in DOMAIN srcFiles : EndsInMd(f[Len(f)])}

Stem(n) == SubSeq(n, 1, Len(n) - 3)
NoSpaces(s) == SelectSeq(s, LAMBDA c : c # " ")
DotHtml == <<".", "h", "t", "m", "l">>
SiteDir == <<"s", "i", "t", "e">>

\* the output path that mirrors document f: same directories, .md -> .html
MirrorPath(f) == <<SiteDir>> \o Parent(f) \o <<Stem(f[Len(f)]) \o DotHtml>>

\* the relative directory of f as a string, "." for the input root
RelDirString(f) == IF Len(f) = 1 THEN <<".">> ELSE JoinSegs(Parent(f))

\* filepath.Join(outputDir, D, F): D the relative directory of f and F its
\* name with .md replaced by .html, both with every space removed
StrippedPath(f) ==
    SegsOf(Join(<<SiteDir, NoSpaces(RelDirString(f)),
                  NoSpaces(Stem(f[Len(f)])) \o DotHtml>>))

\* the writes generateHTML made for document f
WritesOf(f) == {k \in DOMAIN writes : origin[writes[k].page] = f}
RecordsOf(f) == {i \in DOMAIN pages : origin[i] = f}

\* the documents on which the renderer fails
BadDocuments == {f \in Documents : srcFiles[f].data \in badBytes}

IndexPath == <<SiteDir, indexFile>>
IndexWritten == IndexPath \in DOMAIN outFiles /\ outFiles[IndexPath].kind = "index"
IndexItems ==
    IF IndexWritten
    THEN LET g == outFiles[IndexPath].groups
         IN  UNION {{g[i].items[j] : j \in DOMAIN g[i].items} : i \in DOMAIN g}
    ELSE {}
LinkText(page) == page.Dir \o <<"/">> \o page.Filename

\* a link of the index, taken as a path relative to the output root
ResolveLink(href) == SegsOf(SiteDir \o <<"/">> \o href)

\* the files of the asset directory docs/img
Assets == {f \in DOMAIN srcFiles : IsUnder(f, <<imgDir>>)}

(***************************************************************************)
(* C1 as written: after a run without I/O error every document has exactly *)
(* one page, at the mirrored path: the same relative directory, the name   *)
(* with .md replaced by .html, and the file there is that page.  The code  *)
(* removes the spaces of the directory and of the name, and the index or   *)
(* a later page can take the place of a page.                              *)
(***************************************************************************)
C1_MirroredOutput ==
    (pc = "done" /\ NoIOError) =>
        \A f \in Documents :
            /\ Cardinality(WritesOf(f)) = 1
            /\ \A k \in WritesOf(f) :
                 /\ writes[k].path = MirrorPath(f)
                 /\ MirrorPath(f) \in DOMAIN outFiles
                 /\ outFiles[MirrorPath(f)] = writes[k].file

(***************************************************************************)
(* C2 as written: an error on one entry during the walk skips that entry   *)
(* only; every other document still gets its record, page and index entry. *)
(* The code ends the walk and the run at the first error.                  *)
(***************************************************************************)
C2_WalkErrorSkipsOneEntry ==
    (Terminated /\ Printed("Error processing directory")) =>
        \A f \in Documents :
            (f # Head(todo) /\ ~IsUnder(f, Head(todo))) =>
                /\ RecordsOf(f) # {}
                /\ WritesOf(f) # {}
                /\ \E it \in IndexItems :
                     \E i \in RecordsOf(f) : it.href = LinkText(pages[i])

(***************************************************************************)
(* C3 as written: every fatal error ends the run with a non-zero exit      *)
(* status and a message, and nothing is written after it.  The code        *)
(* returns from main, status 0, when the deletion or the copy fails.       *)
(***************************************************************************)
FatalError ==
    \/ Printed("Error deleting output directory")
    \/ Printed("Error copying img directory")
    \/ Printed("Error processing directory")

C3_FatalErrorExitsNonZero ==
    (Terminated /\ FatalError) =>
        /\ status # 0
        /\ writes = <<>>
        /\ ~IndexWritten

(***************************************************************************)
(* C4 as written: no two documents yield the same (Dir, Filename), and two *)
(* documents with one destination are never silently written over one      *)
(* another.  Names that differ only in spaces collide.                     *)
(***************************************************************************)
C4_UniqueDestination ==
    /\ \A i, j \in DOMAIN pages :
         i # j => <<pages[i].Dir, pages[i].Filename>> #
                  <<pages[j].Dir, pages[j].Filename>>
    /\ \A k, l \in DOMAIN writes :
         (k # l /\ writes[k].path = writes[l].path) => log # <<>>

(***************************************************************************)
(* C5: when the renderer fails on exactly one document and nothing else    *)
(* fails, the run reaches its end with status 0, the failure is printed,   *)
(* and generateHTML writes for each other document one page that carries   *)
(* the document's own title and its own rendered content.                  *)
(***************************************************************************)
OnlyRenderFailure ==
    /\ Terminated
    /\ faults = 0
    /\ <<imgDir>> \in srcDirs
    /\ Cardinality(BadDocuments) = 1
    /\ \A i \in DOMAIN log :
         log[i].msg \notin {"copy error", "Error generating HTML for page",
                            "Error generating index"}

C5_RenderFailureIsolated ==
    OnlyRenderFailure =>
        /\ pc = "done" /\ status = 0
        /\ Printed("Error converting Markdown to HTML")
        /\ \A f \in Documents \ BadDocuments :
             /\ Cardinality(WritesOf(f)) = 1
             /\ \A k \in WritesOf(f) :
                  /\ writes[k].file.title = NoSpaces(Stem(f[Len(f)]))
                  /\ writes[k].file.content = <<"html", srcFiles[f].data>>

C5_Witness ==
    /\ OnlyRenderFailure
    /\ pc = "done"
    /\ Cardinality(Documents) = 2
    /\ \E f \in Documents \ BadDocuments :
         /\ StrippedPath(f) \in DOMAIN outFiles
         /\ outFiles[StrippedPath(f)].content = <<"html", srcFiles[f].data>>

(***************************************************************************)
(* C6: generateIndex starts only when the walk has ended and every         *)
(* document has its record; the records it groups are the whole list, and  *)
(* the list is the same in every later state.                              *)
(***************************************************************************)
IndexStarted == pc = "index" \/ pc = "done"

RECURSIVE SumLen(_, _)
SumLen(m, K) ==
    IF K = {} THEN 0
    ELSE LET k == CHOOSE x \in K : TRUE IN Len(m[k]) + SumLen(m, K \ {k})

GroupedRecords ==
    UNION {{dirMap[k][j] : j \in DOMAIN dirMap[k]} : k \in DOMAIN dirMap}

C6_IndexAfterDiscovery ==
    IndexStarted =>
        /\ todo = <<>>
        /\ \A f \in Documents : Cardinality(RecordsOf(f)) = 1
        /\ Len(pages) = Cardinality(Documents)
        /\ SumLen(dirMap, DOMAIN dirMap) = Len(pages)
        /\ GroupedRecords = {pages[i] : i \in DOMAIN pages}

C6_Witness ==
    /\ pc = "index" /\ faults = 0
    /\ Len(pages) = 2
    /\ Cardinality(DOMAIN dirMap) = 2

(***************************************************************************)
(* C7 as written: at the end of a run without error every file of docs/img *)
(* has an identical copy at the same relative path under site/img, also    *)
(* when documents lie in the asset directory.  A page written to the path  *)
(* of a copied asset replaces the copy.                                    *)
(***************************************************************************)
C7_AssetsCopied ==
    (pc = "done" /\ faults = 0 /\ log = <<>>) =>
        \A f \in Assets :
            /\ <<SiteDir>> \o f \in DOMAIN outFiles
            /\ outFiles[<<SiteDir>> \o f] = srcFiles[f]

(***************************************************************************)
(* C8 as written: every link of the index is Dir/Filename of a record,     *)
(* every record has its link, and for every record listed the link, taken  *)
(* relative to the output root, names the file generateHTML produced for   *)
(* that record.  The index lists every record, also one whose page was not *)
(* written or was replaced by the page of another record.                  *)
(***************************************************************************)
PageOf(page) == [kind |-> "page", title |-> page.Title, content |-> page.Content]

C8_LinksResolve ==
    (pc = "done" /\ IndexWritten) =>
        /\ \A it \in IndexItems :
             \E i \in DOMAIN pages :
                 it.href = LinkText(pages[i]) /\ it.label = pages[i].Title
        /\ \A i \in DOMAIN pages :
             /\ \E it \in IndexItems : it.href = LinkText(pages[i])
             /\ ResolveLink(LinkText(pages[i])) \in DOMAIN outFiles
             /\ outFiles[ResolveLink(LinkText(pages[i]))] = PageOf(pages[i])

(***************************************************************************)
(* C9: in dirMap every record of the run lies in exactly one group, the    *)
(* group of its Dir, and no group is empty.                                *)
(***************************************************************************)
CountIn(seq, r) == Cardinality({j \in DOMAIN seq : seq[j] = r})

C9_GroupedByDir ==
    IndexStarted =>
        /\ \A k \in DOMAIN dirMap :
             /\ dirMap[k] # <<>>
             /\ \A j \in DOMAIN dirMap[k] : dirMap[k][j].Dir = k
        /\ \A i \in DOMAIN pages :
             /\ pages[i].Dir \in DOMAIN dirMap
             /\ CountIn(dirMap[pages[i].Dir], pages[i]) = CountIn(pages, pages[i])
        /\ IndexWritten =>
             /\ Len(outFiles[IndexPath].groups) = Cardinality(DOMAIN dirMap)
             /\ \A g \in DOMAIN outFiles[IndexPath].groups :
                  outFiles[IndexPath].groups[g].items # <<>>

C9_Witness ==
    /\ pc = "done" /\ IndexWritten /\ faults = 0
    /\ \E k \in DOMAIN dirMap :
         Len(dirMap[k]) = 2 /\ dirMap[k][1].Filename # dirMap[k][2].Filename

(***************************************************************************)
(* C10: when docs/img is missing or its stat fails, the copy reports the   *)
(* failed stat and the run ends right after the deletion of the output     *)
(* directory: status 0, the walk never starts, no page and no index is     *)
(* written, and nothing is left under "site".                              *)
(***************************************************************************)
PastCopy == pc \notin {"getwd", "remove", "copy"}

StatFailed ==
    \E i \in DOMAIN log :
        log[i] = Msg("Error copying img directory", <<"stat">>)

C10_MissingImgStopsRun ==
    /\ (<<imgDir>> \notin Entries /\ PastCopy
           /\ ~Printed("Error getting current directory")
           /\ ~Printed("Error deleting output directory"))
         => StatFailed
    /\ StatFailed =>
         /\ pc = "exited" /\ status = 0
         /\ todo = <<>> /\ pages = <<>> /\ writes = <<>>
         /\ \A p \in DOMAIN outFiles : p[1] # SiteDir
         /\ \A d \in outDirs : d[1] # SiteDir

C10_Witness ==
    /\ pc = "exited"
    /\ <<imgDir>> \notin Entries
    /\ Documents # {}
    /\ StatFailed
    /\ DOMAIN outFiles = {}
    /\ outDirs = {}

====
